---------------------------- MODULE Spec2Model ----------------------------
(***************************************************************************)
(* The JSON file-backed todo store (src/todo_api/json_db.py), the callers  *)
(* of it that the HTTP layer (src/todo_api/main.py) and the tool adapter   *)
(* (src/todo_mcp/server.py) make, the in-memory store                      *)
(* (src/todo_api/db.py) beside it, the toggle request of the web UI        *)
(* (src/todo_ui/app.py) and the loop of the chat CLI                       *)
(* (src/todo_chat/chat_cli.py).                                            *)
(*                                                                         *)
(* A store operation is not one step: _load_todos takes file_lock, reads   *)
(* the file and releases the lock; the caller then changes its private     *)
(* dictionary; _save_todos takes file_lock again, truncates the file,      *)
(* writes it and releases.  Each of these is an action, so that calls of   *)
(* several threads interleave as the code lets them.                       *)
(***************************************************************************)
EXTENDS Naturals, Sequences, FiniteSets, TLC

VARIABLES
    file,       \* DB_FILE: [st, data]; st is absent, malformed, partial or ok
    sample,     \* SAMPLE_DB_FILE: [st, data]
    file_lock,  \* the set of threads inside a `with file_lock:` block
    issued,     \* how many ids uuid.uuid4() has produced
    clock,      \* the last value datetime.now() returned
    pc,         \* pc[t]: where thread t is in its store call
    call,       \* call[t]: the call thread t is making
    todos_db,   \* todos_db[t]: the local variable todos_db of the call
    ret,        \* ret[t]: what the call returns or raises
    seen,       \* history: seen[t] is DB_FILE as the call's _load_todos found it
    saved,      \* history: saved[t] holds once the call has written in _save_todos
    created,    \* history: the ids create_todo has given out, in order
    deleted,    \* history: the ids delete_todo has removed
    calls,      \* how many calls have been made
    persisted,  \* history: the dict of DB_FILE when it last was well-formed
    mem_todos_db, \* todos_db of src/todo_api/db.py, the in-memory store
    ui,         \* ui[p]: the toggle request p of the web UI is handling
    chat        \* the chat CLI: where chat_loop is, its connections, messages

vars == <<file, sample, file_lock, issued, clock, pc, call, todos_db, ret,
          seen, saved, created, deleted, calls, persisted, mem_todos_db,
          ui, chat>>

---------------------------------------------------------------------------
(* Bounds of the model. *)

\* Threads calling the store concurrently.
NumThreads == 2
\* Ids uuid.uuid4() may hand out in one run.
MaxIds == 2
\* Largest value the clock reaches.
MaxClock == 1
\* Calls made in one run of concurrent threads.
MaxCalls == 3

Threads == 1..NumThreads

---------------------------------------------------------------------------
(* Values. *)

\* Python's None, and json's null.
None == "None"

\* str(uuid.uuid4()): the n-th call yields the n-th string of a pool of
\* pairwise distinct non-empty strings.
IdPool == <<"u1", "u2", "u3", "u4">>

uuid4(n) == IdPool[n]

\* The key of the record the sample file holds, and an id no file holds.
SampleId == "s1"

UnknownId == "zz"

\* dict order of the keys: json keeps the file's order, a new key is
\* appended, and every new key is a later uuid than any key loaded.
KeyOrder == <<SampleId>> \o IdPool

\* Due dates as the store gets them: ISO-8601 text.
DueDates == {"2026-01-01T00:00:00"}

\* Due dates as TodoCreate parses them: datetime values.
DateTimes == {"datetime(2026, 1, 1)"}

\* The empty dict.
EmptyDb == [k \in {} |-> None]

\* d[k] = v on a Python dict: adds the key when it is not there.
SetItem(d, k, v) == [x \in (DOMAIN d) \cup {k} |-> IF x = k THEN v ELSE d[x]]

\* del d[k]
DelItem(d, k) == [x \in (DOMAIN d) \ {k} |-> d[x]]

\* d.get(k)
Get(d, k) == IF k \in DOMAIN d THEN d[k] ELSE None

---------------------------------------------------------------------------
(* json.dump and json.load: the file holds the dict as a sequence of       *)
(* <<key, value>> members in dict order; loading builds the dict again,    *)
(* the last member of a key winning.                                       *)

RECURSIVE DumpFrom(_, _)
DumpFrom(d, i) ==
    IF i > Len(KeyOrder) THEN <<>>
    ELSE (IF KeyOrder[i] \in DOMAIN d
            THEN <<(<<KeyOrder[i], d[KeyOrder[i]]>>)>>
            ELSE <<>>) \o DumpFrom(d, i + 1)

\* A dump that writes the first member only.
json_dump_first(d) ==
    IF DumpFrom(d, 1) = <<>> THEN <<>> ELSE <<Head(DumpFrom(d, 1))>>

json_dump(d) == DumpFrom(d, 1)

RECURSIVE json_load(_)
json_load(s) ==
    IF s = <<>> THEN EmptyDb
    ELSE LET n == Len(s)
         IN  SetItem(json_load(SubSeq(s, 1, n - 1)), s[n][1], s[n][2])

\* list(todos_db.values())
RECURSIVE ValuesFrom(_, _)
ValuesFrom(d, i) ==
    IF i > Len(KeyOrder) THEN <<>>
    ELSE (IF KeyOrder[i] \in DOMAIN d THEN <<d[KeyOrder[i]]>> ELSE <<>>)
         \o ValuesFrom(d, i + 1)

\* A listing that has every value twice.
ValuesTwice(d) == ValuesFrom(d, 1) \o ValuesFrom(d, 1)

Values(d) == ValuesFrom(d, 1)

\* The states of a file on disk.
AbsentFile == [st |-> "absent", data |-> <<>>]

MalformedFile == [st |-> "malformed", data |-> <<>>]

\* A file opened with 'w' whose json.dump has not finished: truncated or
\* holding a prefix of the text, which json.load rejects.
PartialFile == [st |-> "partial", data |-> <<>>]

OkFile(d) == [st |-> "ok", data |-> json_dump(d)]

\* The record of the sample file.
SampleTodo ==
    [id |-> SampleId, title |-> "a", description |-> "", completed |-> "False",
     created_at |-> 0, updated_at |-> 0]

SampleDb == SetItem(EmptyDb, SampleId, SampleTodo)

---------------------------------------------------------------------------
(* Results of a call. *)

\* A value returned: none tells None from a record, a list or a bool.
Returned(v) == [kind |-> "return", none |-> FALSE, val |-> v]

ReturnedNone == [kind |-> "return", none |-> TRUE, val |-> None]

Raised(e) == [kind |-> "raise", none |-> FALSE, val |-> e]

NoRet == [kind |-> "none", none |-> FALSE, val |-> None]

NoCall == [op |-> "none", via |-> "none"]

---------------------------------------------------------------------------
(* The processes beside the store: the requests of the web UI            *)
(* (src/todo_ui/app.py) and the chat CLI (src/todo_chat/chat_cli.py).      *)

\* Toggle requests the web UI handles at a time.
NumClients == 2

Clients == 1..NumClients

\* Toggles one handler of the web UI carries out.
MaxToggles == 2

\* A request handler of the web UI that is not in toggle_todo: at is where
\* it is, todo_id the todo of the request, completed what its GET read,
\* toggles how many of its toggles succeeded.
UiIdle == [at |-> "idle", todo_id |-> None, completed |-> None, toggles |-> 0]

\* Messages the user enters in one run of the chat CLI.
MaxTurns == 2

\* chat_loop before it is called: at is where it is, client and session
\* the two context managers of the connection, mcp_session whether the
\* global is set, messages the history, content the blocks of the response
\* not yet processed, tool_id the id of the tool call under way, turns the
\* messages entered, closed the context managers exited, in order.
ChatStart ==
    [at |-> "start", client |-> "unopened", session |-> "unopened",
     mcp_session |-> FALSE, messages |-> <<>>, content |-> <<>>,
     has_tool_calls |-> FALSE, tool_id |-> 0, turns |-> 0, closed |-> <<>>]

---------------------------------------------------------------------------
Init ==
    /\ file \in {AbsentFile, MalformedFile, OkFile(EmptyDb)}
    /\ sample \in {AbsentFile, MalformedFile, OkFile(SampleDb)}
    /\ file_lock = {}
    /\ issued = 0
    /\ clock = 0
    /\ pc = [t \in Threads |-> "idle"]
    /\ call = [t \in Threads |-> NoCall]
    /\ todos_db = [t \in Threads |-> EmptyDb]
    /\ ret = [t \in Threads |-> NoRet]
    /\ seen = [t \in Threads |-> AbsentFile]
    /\ saved = [t \in Threads |-> FALSE]
    /\ created = <<>>
    /\ deleted = {}
    /\ calls = 0
    /\ persisted = IF file.st = "ok" THEN json_load(file.data) ELSE EmptyDb
    /\ mem_todos_db = EmptyDb
    /\ ui = [p \in Clients |-> UiIdle]
    /\ chat = ChatStart

---------------------------------------------------------------------------
(* Calls of the store.  A call is a record: op, and kw (the keyword        *)
(* arguments of create_todo), or todo_id, or todo_id and data.             *)

\* The parameters of create_todo(title, description="", completed=False).
CreateParams == {"title", "description", "completed"}

CreateRequired == {"title"}

\* Python binds the arguments before the body runs: a keyword the function
\* does not declare, or a missing required one, raises TypeError.
BindFails(c) ==
    /\ c.op = "create"
    /\ ~ (/\ DOMAIN c.kw \subseteq CreateParams
          /\ CreateRequired \subseteq DOMAIN c.kw)

\* The value of parameter k of a call of create_todo, with its default.
Arg(c, k, default) == IF k \in DOMAIN c.kw THEN c.kw[k] ELSE default

\* datetime.now().isoformat(): never before the last value read; MaxClock
\* caps the model's clock.
Now == {n \in {clock, clock + 1} : n <= MaxClock}

\* Calls of create_todo that have not drawn their id yet.
PendingCreates ==
    {u \in Threads : call[u].op = "create" /\ pc[u] \in {"load", "loading", "loaded"}}

\* A thread calls a store function; n is the count of calls made with this
\* one.  The create_todo guard keeps the ids drawn within MaxIds.
Invoke(t, c, n) ==
    /\ pc[t] = "idle"
    /\ c.op = "create" /\ ~ BindFails(c)
          => issued + Cardinality(PendingCreates) < MaxIds
    /\ call' = [call EXCEPT ![t] = c]
    /\ calls' = n
    /\ IF BindFails(c)
         THEN /\ pc' = [pc EXCEPT ![t] = "done"]
              /\ ret' = [ret EXCEPT ![t] = Raised("TypeError")]
         ELSE /\ pc' = [pc EXCEPT ![t] = "load"]
              /\ ret' = [ret EXCEPT ![t] = NoRet]
    /\ UNCHANGED <<file, sample, file_lock, issued, clock, todos_db, seen,
                   saved, created, deleted, persisted, mem_todos_db,
                   ui, chat>>

---------------------------------------------------------------------------
(* file_lock = threading.Lock(); `with file_lock:` *)

\* A lock that never makes a thread wait.
CanAcquireAlways(t) == TRUE

\* A lock that is never granted.
CanAcquireNever(t) == FALSE

\* Whether thread t may enter the block now.
CanAcquire(t) == file_lock = {}

Acquire(t) == file_lock \cup {t}

Release(t) == file_lock \ {t}

---------------------------------------------------------------------------
(* _load_todos *)

\* _load_todos without the handler of a file that does not parse: the dict
\* is empty and the file stays as it is.
LoadBodyKeepsFile(f, s) ==
    IF f.st = "absent"
      THEN IF s.st = "ok"
             THEN [db |-> json_load(s.data), file |-> OkFile(json_load(s.data))]
             ELSE [db |-> EmptyDb, file |-> OkFile(EmptyDb)]
      ELSE IF f.st = "ok"
             THEN [db |-> json_load(f.data), file |-> f]
             ELSE [db |-> EmptyDb, file |-> f]

\* _load_todos without the sample file: an absent DB_FILE starts empty.
LoadBodyNoSample(f, s) ==
    IF f.st = "ok"
      THEN [db |-> json_load(f.data), file |-> f]
      ELSE [db |-> EmptyDb, file |-> OkFile(EmptyDb)]

\* _load_todos copying the sample file whenever DB_FILE holds no record.
LoadBodyReseeds(f, s) ==
    IF s.st = "ok" /\ (f.st # "ok" \/ f.data = <<>>)
      THEN [db |-> json_load(s.data), file |-> OkFile(json_load(s.data))]
      ELSE IF f.st = "ok"
             THEN [db |-> json_load(f.data), file |-> f]
             ELSE [db |-> EmptyDb, file |-> OkFile(EmptyDb)]

\* _load_todos catching nothing when it reads the sample file: nothing is
\* written and the call ends with the exception.
LoadBodyBadSample(f, s) ==
    IF f.st = "absent"
      THEN IF s.st = "ok"
             THEN [db |-> json_load(s.data), file |-> OkFile(json_load(s.data))]
             ELSE IF s.st = "malformed"
                    THEN [db |-> EmptyDb, file |-> f]
                    ELSE [db |-> EmptyDb, file |-> OkFile(EmptyDb)]
      ELSE IF f.st = "ok"
             THEN [db |-> json_load(f.data), file |-> f]
             ELSE [db |-> EmptyDb, file |-> OkFile(EmptyDb)]

\* The body of _load_todos under the lock: [db: the dict returned,
\* file: DB_FILE afterwards].
LoadBody(f, s) ==
    IF f.st = "absent"
      THEN IF s.st # "absent"
             THEN IF s.st = "ok"
                    THEN [db |-> json_load(s.data),
                          file |-> OkFile(json_load(s.data))]
                    ELSE [db |-> EmptyDb, file |-> OkFile(EmptyDb)]
             ELSE [db |-> EmptyDb, file |-> OkFile(EmptyDb)]
      ELSE IF f.st = "ok"
             THEN [db |-> json_load(f.data), file |-> f]
             ELSE [db |-> EmptyDb, file |-> OkFile(EmptyDb)]

\* What _load_todos returned to the call of thread t.
Snap(t) == LoadBody(seen[t], sample).db

\* The store as a call that loads now finds it.
Store == LoadBody(file, sample).db

\* `with file_lock:` of _load_todos.
LoadAcquire(t) ==
    /\ pc[t] = "load"
    /\ CanAcquire(t)
    /\ file_lock' = Acquire(t)
    /\ pc' = [pc EXCEPT ![t] = "loading"]
    /\ UNCHANGED <<file, sample, issued, clock, call, todos_db, ret, seen,
                   saved, created, deleted, calls, persisted, mem_todos_db,
                   ui, chat>>

\* The body of _load_todos, and the release of the lock on return.
LoadReturn(t) ==
    /\ pc[t] = "loading"
    /\ LET r == LoadBody(file, sample)
       IN  /\ file' = r.file
           /\ todos_db' = [todos_db EXCEPT ![t] = r.db]
           /\ seen' = [seen EXCEPT ![t] = file]
           /\ persisted' = r.db
    /\ file_lock' = Release(t)
    /\ pc' = [pc EXCEPT ![t] = "loaded"]
    /\ UNCHANGED <<sample, issued, clock, call, ret, saved, created,
                   deleted, calls, mem_todos_db, ui, chat>>

---------------------------------------------------------------------------
(* The store functions, from the return of _load_todos to the call of      *)
(* _save_todos or to the return.  ret[t] holds the value the function      *)
(* returns once it is done.                                                *)

get_all_todos(t) ==
    /\ pc[t] = "loaded" /\ call[t].op = "list"
    /\ ret' = [ret EXCEPT ![t] = Returned(Values(todos_db[t]))]
    /\ pc' = [pc EXCEPT ![t] = "done"]
    /\ UNCHANGED <<file, sample, file_lock, issued, clock, call, todos_db,
                   seen, saved, created, deleted, calls,
                   persisted, mem_todos_db, ui, chat>>

get_todo(t) ==
    /\ pc[t] = "loaded" /\ call[t].op = "get"
    /\ ret' = [ret EXCEPT ![t] =
                  IF call[t].todo_id \in DOMAIN todos_db[t]
                    THEN Returned(todos_db[t][call[t].todo_id])
                    ELSE ReturnedNone]
    /\ pc' = [pc EXCEPT ![t] = "done"]
    /\ UNCHANGED <<file, sample, file_lock, issued, clock, call, todos_db,
                   seen, saved, created, deleted, calls,
                   persisted, mem_todos_db, ui, chat>>

\* An id made from the number of records in the dict.
NewIdByCount(n, db) == uuid4(Cardinality(DOMAIN db) + 1)

\* The id create_todo gives the new record, n ids having been drawn and db
\* being the dict loaded.
NewId(n, db) == uuid4(n + 1)

\* A record built with completed left at its default.
NewTodoDefaults(c, id, now) ==
    [id |-> id,
     title |-> c.kw["title"],
     description |-> Arg(c, "description", ""),
     completed |-> "False",
     created_at |-> now,
     updated_at |-> now]

\* The dict create_todo builds.
NewTodo(c, id, now) ==
    [id |-> id,
     title |-> c.kw["title"],
     description |-> Arg(c, "description", ""),
     completed |-> Arg(c, "completed", "False"),
     created_at |-> now,
     updated_at |-> now]

create_todo(t) ==
    /\ pc[t] = "loaded" /\ call[t].op = "create"
    /\ \E now \in Now :
         LET todo_id == NewId(issued, todos_db[t])
             todo == NewTodo(call[t], todo_id, now)
         IN  /\ clock' = now
             /\ issued' = issued + 1
             /\ created' = Append(created, todo_id)
             /\ todos_db' = [todos_db EXCEPT ![t] = SetItem(@, todo_id, todo)]
             /\ ret' = [ret EXCEPT ![t] = Returned(todo)]
    /\ pc' = [pc EXCEPT ![t] = "save"]
    /\ UNCHANGED <<file, sample, file_lock, call, seen, saved, deleted,
                   calls, persisted, mem_todos_db, ui, chat>>

\* The keys of data update_todo copies into the record.
UpdateKeys == {"title", "description", "completed"}

\* update_todo with the existence test left out: a missing record is
\* taken as an empty one, updated and saved.
UpdatedUpsert(db, c, now) ==
    LET old == IF c.todo_id \in DOMAIN db THEN db[c.todo_id] ELSE [id |-> c.todo_id]
        todo == [k \in (DOMAIN old) \cup ((DOMAIN c.data) \cap UpdateKeys)
                        \cup {"updated_at"} |->
                    IF k = "updated_at" THEN now
                    ELSE IF k \in (DOMAIN c.data) \cap UpdateKeys THEN c.data[k]
                    ELSE old[k]]
    IN  [db |-> SetItem(db, c.todo_id, todo), ret |-> Returned(todo), save |-> TRUE]

\* An update that assigns every key of UpdateKeys, None when data lacks it.
UpdatedWhole(todo, data, now) ==
    [k \in (DOMAIN todo) \cup UpdateKeys \cup {"updated_at"} |->
        IF k = "updated_at" THEN now
        ELSE IF k \in UpdateKeys THEN Get(data, k)
        ELSE todo[k]]

\* An update that stamps updated_at with the epoch instead of the time read.
UpdatedAtEpoch(todo, data, now) ==
    [k \in (DOMAIN todo) \cup ((DOMAIN data) \cap UpdateKeys) \cup {"updated_at"} |->
        IF k = "updated_at" THEN 0
        ELSE IF k \in (DOMAIN data) \cap UpdateKeys THEN data[k]
        ELSE todo[k]]

\* An update that copies every key of data: todo.update(data).
UpdatedAll(todo, data, now) ==
    [k \in (DOMAIN todo) \cup (DOMAIN data) \cup {"updated_at"} |->
        IF k = "updated_at" THEN now
        ELSE IF k \in DOMAIN data THEN data[k]
        ELSE todo[k]]

\* The record after update_todo's assignments.
Updated(todo, data, now) ==
    [k \in (DOMAIN todo) \cup ((DOMAIN data) \cap UpdateKeys) \cup {"updated_at"} |->
        IF k = "updated_at" THEN now
        ELSE IF k \in (DOMAIN data) \cap UpdateKeys THEN data[k]
        ELSE todo[k]]

\* update_todo on the dict loaded: [db: the dict after, ret: the value
\* returned, save: whether _save_todos is called].
update_outcome(db, c, now) ==
    IF c.todo_id \notin DOMAIN db
      THEN [db |-> db, ret |-> ReturnedNone, save |-> FALSE]
      ELSE LET todo == Updated(db[c.todo_id], c.data, now)
           IN  [db |-> SetItem(db, c.todo_id, todo),
                ret |-> Returned(todo),
                save |-> TRUE]

update_todo(t) ==
    /\ pc[t] = "loaded" /\ call[t].op = "update"
    /\ \E now \in Now :
         LET o == update_outcome(todos_db[t], call[t], now)
         IN  /\ clock' = IF o.save THEN now ELSE clock
             /\ todos_db' = [todos_db EXCEPT ![t] = o.db]
             /\ ret' = [ret EXCEPT ![t] = o.ret]
             /\ pc' = [pc EXCEPT ![t] = IF o.save THEN "save" ELSE "done"]
    /\ UNCHANGED <<file, sample, file_lock, issued, call, seen, saved, created,
                   deleted, calls, persisted, mem_todos_db, ui, chat>>

\* delete_todo as dict.pop(todo_id, None) followed by the save: true
\* whether the id was there or not.
delete_pop(db, c) == [db |-> DelItem(db, c.todo_id), ret |-> Returned(TRUE), save |-> TRUE]

\* delete_todo on the dict loaded: [db, ret, save] as for update_todo.
delete_outcome(db, c) ==
    IF c.todo_id \notin DOMAIN db
      THEN [db |-> db, ret |-> Returned(FALSE), save |-> FALSE]
      ELSE [db |-> DelItem(db, c.todo_id), ret |-> Returned(TRUE), save |-> TRUE]

delete_todo(t) ==
    /\ pc[t] = "loaded" /\ call[t].op = "delete"
    /\ LET o == delete_outcome(todos_db[t], call[t])
       IN  /\ todos_db' = [todos_db EXCEPT ![t] = o.db]
           /\ ret' = [ret EXCEPT ![t] = o.ret]
           /\ pc' = [pc EXCEPT ![t] = IF o.save THEN "save" ELSE "done"]
           /\ deleted' = IF o.ret.val THEN deleted \cup {call[t].todo_id} ELSE deleted
    /\ UNCHANGED <<file, sample, file_lock, issued, clock, call, seen, saved,
                   created, calls, persisted, mem_todos_db, ui, chat>>

---------------------------------------------------------------------------
(* _save_todos *)

\* `with file_lock:` of _save_todos.
SaveAcquire(t) ==
    /\ pc[t] = "save"
    /\ CanAcquire(t)
    /\ file_lock' = Acquire(t)
    /\ pc' = [pc EXCEPT ![t] = "saving"]
    /\ UNCHANGED <<file, sample, issued, clock, call, todos_db, ret, seen,
                   saved, created, deleted, calls, persisted, mem_todos_db,
                   ui, chat>>

\* DB_FILE.open('w'): the file is truncated.
SaveOpen(t) ==
    /\ pc[t] = "saving"
    /\ file' = PartialFile
    /\ saved' = [saved EXCEPT ![t] = TRUE]
    /\ pc' = [pc EXCEPT ![t] = "dumping"]
    /\ UNCHANGED <<sample, file_lock, issued, clock, call, todos_db, ret,
                   seen, created, deleted, calls, persisted, mem_todos_db,
                   ui, chat>>

\* json.dump completes, the file is closed and the lock released.
SaveReturn(t) ==
    /\ pc[t] = "dumping"
    /\ file' = OkFile(todos_db[t])
    /\ persisted' = todos_db[t]
    /\ file_lock' = Release(t)
    /\ pc' = [pc EXCEPT ![t] = "done"]
    /\ UNCHANGED <<sample, issued, clock, call, todos_db, ret, seen, saved,
                   created, deleted, calls, mem_todos_db, ui, chat>>

\* The store function returns to its caller.
Return(t) ==
    /\ pc[t] = "done"
    /\ pc' = [pc EXCEPT ![t] = "idle"]
    /\ call' = [call EXCEPT ![t] = NoCall]
    /\ todos_db' = [todos_db EXCEPT ![t] = EmptyDb]
    /\ seen' = [seen EXCEPT ![t] = AbsentFile]
    /\ saved' = [saved EXCEPT ![t] = FALSE]
    /\ ret' = [ret EXCEPT ![t] = NoRet]
    /\ UNCHANGED <<file, sample, file_lock, issued, clock, created,
                   deleted, calls, persisted, mem_todos_db, ui, chat>>

\* The steps of a call once it is made.
Step(t) ==
    \/ LoadAcquire(t)
    \/ LoadReturn(t)
    \/ get_all_todos(t)
    \/ get_todo(t)
    \/ create_todo(t)
    \/ update_todo(t)
    \/ delete_todo(t)
    \/ SaveAcquire(t)
    \/ SaveOpen(t)
    \/ SaveReturn(t)
    \/ Return(t)

---------------------------------------------------------------------------
(* Callers.  via names who calls the store: a thread directly ("store"),  *)
(* the HTTP handler ("http") or the tool adapter ("mcp").                  *)

CreateCall(via, kw) == [op |-> "create", via |-> via, kw |-> kw]

UpdateCall(via, id, data) ==
    [op |-> "update", via |-> via, todo_id |-> id, data |-> data]

IdCall(via, op, id) == [op |-> op, via |-> via, todo_id |-> id]

ListCall(via) == [op |-> "list", via |-> via]

\* datetime.isoformat() of a due date.
isoformat(d) == IF d = "datetime(2026, 1, 1)" THEN "2026-01-01T00:00:00" ELSE None

\* x or "" in Python.
OrEmpty(x) == IF x = None \/ x = "" THEN "" ELSE x

\* POST /todos: the call of db.create_todo the handler makes for a body
\* TodoCreate has validated.
http_create_todo(todo_data) ==
    CreateCall("http",
        [title |-> todo_data.title,
         description |-> OrEmpty(todo_data.description),
         completed |-> todo_data.completed,
         due_date |-> IF todo_data.due_date # None
                        THEN isoformat(todo_data.due_date) ELSE None])

\* The create_todo tool: the call of db.create_todo it makes.
mcp_create_todo(todo) ==
    CreateCall("mcp",
        [title |-> todo.title,
         description |-> OrEmpty(todo.description),
         completed |-> todo.completed,
         due_date |-> todo.due_date])

\* The status POST /todos answers with: 201 and the record when
\* db.create_todo returned, 500 when it raised.
http_create_status(r) == IF r.kind = "return" THEN "201" ELSE "500"

---------------------------------------------------------------------------
(* The calls threads make concurrently. *)

ConcCalls ==
    {CreateCall("store", [title |-> "a"]),
     ListCall("store"),
     UpdateCall("store", uuid4(1), [completed |-> "True"]),
     IdCall("store", "get", uuid4(1)),
     IdCall("store", "delete", uuid4(1))}

Next ==
    \E t \in Threads :
        \/ \E c \in ConcCalls : calls < MaxCalls /\ Invoke(t, c, calls + 1)
        \/ Step(t)

\* Concurrent runs start with no sample file, the data file there or not.
InitConc == Init /\ sample.st = "absent" /\ file.st # "malformed"

Spec == InitConc /\ [][Next]_vars

---------------------------------------------------------------------------
\* The threads are scheduled fairly: a thread that can take a step takes
\* it, and a thread that finds the lock free again and again gets it.
Fairness ==
    \A t \in Threads :
        /\ WF_vars(Step(t))
        /\ SF_vars(LoadAcquire(t))
        /\ SF_vars(SaveAcquire(t))

SpecFair == InitConc /\ [][Next]_vars /\ Fairness

---------------------------------------------------------------------------
(* I/O failures.  An OSError other than FileNotFoundError (permissions, a  *)
(* full disk) raised by open, json.load, json.dump or mkdir inside a       *)
(* `with file_lock:` block is caught by no handler of json_db.py: it       *)
(* leaves the block, which releases the lock, and ends the store call.     *)

\* A `with file_lock:` block left by an exception without a release.
ReleaseOnRaiseKept(t) == file_lock

\* Lock.__exit__ when the block is left by an exception.
ReleaseOnRaise(t) == file_lock \ {t}

\* _load_todos raises: reading fails and the file stays as it is, or the
\* write of a new or reset DB_FILE fails part-way.
LoadRaises(t) ==
    /\ pc[t] = "loading"
    /\ file' \in {file} \cup (IF file.st # "ok" THEN {PartialFile} ELSE {})
    /\ seen' = [seen EXCEPT ![t] = file]
    /\ ret' = [ret EXCEPT ![t] = Raised("OSError")]
    /\ file_lock' = ReleaseOnRaise(t)
    /\ pc' = [pc EXCEPT ![t] = "done"]
    /\ UNCHANGED <<sample, issued, clock, call, todos_db, saved, created,
                   deleted, calls, persisted, mem_todos_db, ui, chat>>

\* _save_todos raises: mkdir or open fails and the file stays as it is,
\* or json.dump fails and leaves the truncated file.
SaveRaises(t) ==
    /\ pc[t] \in {"saving", "dumping"}
    /\ ret' = [ret EXCEPT ![t] = Raised("OSError")]
    /\ file_lock' = ReleaseOnRaise(t)
    /\ pc' = [pc EXCEPT ![t] = "done"]
    /\ UNCHANGED <<file, sample, issued, clock, call, todos_db, seen, saved,
                   created, deleted, calls, persisted, mem_todos_db, ui,
                   chat>>

\* The calls made while I/O may fail: one that loads and saves, one that
\* only loads.
IoCalls ==
    {CreateCall("store", [title |-> "a"]),
     ListCall("store")}

NextIO ==
    \E t \in Threads :
        \/ \E c \in IoCalls : calls < MaxCalls /\ Invoke(t, c, calls + 1)
        \/ LoadAcquire(t)
        \/ LoadReturn(t)
        \/ LoadRaises(t)
        \/ get_all_todos(t)
        \/ create_todo(t)
        \/ SaveAcquire(t)
        \/ SaveOpen(t)
        \/ SaveReturn(t)
        \/ Return(t)
        \/ SaveRaises(t)

SpecIO == InitConc /\ [][NextIO]_vars

---------------------------------------------------------------------------
(* The calls one caller makes one after the other, as the handlers of the  *)
(* HTTP layer do: each is an `async def` that calls the store without      *)
(* awaiting, so the event loop runs it to its end before the next.         *)

\* Bodies of POST /todos that TodoCreate accepts.
TodoCreateBodies ==
    {[title |-> "a", description |-> d, completed |-> "False", due_date |-> dd] :
        d \in {None, "x"}, dd \in DateTimes \cup {None}}

\* Arguments of the create_todo tool that TodoData accepts.
TodoDataArgs ==
    {[title |-> "a", description |-> d, completed |-> "False", due_date |-> dd] :
        d \in {None, "x"}, dd \in DueDates \cup {None}}

\* Every dict over a subset of the keys of new, each key with its value.
UpdateData(new) == {[k \in ks |-> new[k]] : ks \in SUBSET DOMAIN new}

NewValues ==
    [title |-> "b", description |-> "x", completed |-> "True",
     due_date |-> "2026-01-01T00:00:00"]

\* Dicts with keys update_todo does not copy: the keys of the record that
\* only the store sets.
ReservedData ==
    {[id |-> UnknownId],
     [created_at |-> 5],
     [id |-> UnknownId, created_at |-> 5, title |-> "b"]}

SeqCalls ==
    {CreateCall("store", [title |-> "a"]),
     CreateCall("store", [title |-> "b", description |-> "x", completed |-> "True"])}
    \cup {http_create_todo(b) : b \in TodoCreateBodies}
    \cup {mcp_create_todo(b) : b \in TodoDataArgs}
    \cup {UpdateCall("store", id, d) :
            id \in {uuid4(1), UnknownId}, d \in UpdateData(NewValues)}
    \cup {UpdateCall("store", uuid4(1), d) : d \in ReservedData}
    \cup {IdCall("store", op, id) :
            op \in {"get", "delete"},
            id \in {uuid4(1), uuid4(2), SampleId, UnknownId}}
    \cup {ListCall("store")}

\* The one caller.
Caller == 1

\* The caller's calls are not counted: the run is not cut short.
NextSeq ==
    \/ \E c \in SeqCalls : Invoke(Caller, c, calls)
    \/ Step(Caller)

SpecSeq == Init /\ [][NextSeq]_vars

---------------------------------------------------------------------------
(* The HTTP layer, src/todo_api/main.py, beyond POST /todos: the call of   *)
(* the store each handler makes and the status it answers with.            *)

\* TodoUpdate(**body): a field the body lacks has its default, None;
\* model_fields_set is the set of the fields the body gives, null or not.
TodoUpdate(body) ==
    [title |-> Get(body, "title"),
     description |-> Get(body, "description"),
     completed |-> Get(body, "completed"),
     due_date |-> Get(body, "due_date"),
     fields_set |-> DOMAIN body]

\* The values the bodies of PUT give to the fields they set.
PutValues ==
    [title |-> "b", completed |-> "True", due_date |-> "datetime(2026, 1, 1)"]

\* Bodies of PUT /todos/{id} that TodoUpdate accepts: each field left out,
\* null, or a value of its type.
TodoUpdateBodies ==
    {TodoUpdate([k \in ks |-> IF k \in nulls THEN None ELSE PutValues[k]]) :
        ks \in SUBSET DOMAIN PutValues, nulls \in SUBSET DOMAIN PutValues}

\* todo_data.model_dump(exclude_unset=True)
model_dump(m) == [k \in m.fields_set |-> m[k]]

\* GET /todos
http_get_todos == ListCall("http")

\* GET /todos/{todo_id}
http_get_todo(todo_id) == IdCall("http", "get", todo_id)

\* PUT /todos/{todo_id}: the call of db.update_todo for a body TodoUpdate
\* has validated.
http_update_todo(todo_id, todo_data) ==
    LET update_data == model_dump(todo_data)
    IN  UpdateCall("http", todo_id,
            [k \in DOMAIN update_data |->
                IF k = "due_date" /\ update_data[k] # None
                  THEN isoformat(update_data[k])
                  ELSE update_data[k]])

\* DELETE /todos/{todo_id}
http_delete_todo(todo_id) == IdCall("http", "delete", todo_id)

\* response_model=TodoResponse: whether the record validates.
TodoResponse(todo) ==
    /\ todo.title \notin {None, ""}
    /\ todo.completed \in {"True", "False"}

\* The handlers answer 404 whatever the store returns.
http_status_404(c, r) == "404"

\* The status the handler of call c answers with when the store gives r.
http_status(c, r) ==
    IF r.kind = "raise" THEN "500"
    ELSE IF c.op = "create" THEN "201"
    ELSE IF c.op = "list"
      THEN IF \A i \in 1..Len(r.val) : TodoResponse(r.val[i]) THEN "200" ELSE "500"
    ELSE IF c.op = "delete"
      THEN IF ~ r.val THEN "404" ELSE "204"
    ELSE IF r.none THEN "404"
    ELSE IF TodoResponse(r.val) THEN "200" ELSE "500"

\* The ids of the requests: the record of the sample file, and no record.
HttpIds == {SampleId, UnknownId}

HttpCalls ==
    {http_get_todos}
    \cup {http_create_todo(b) : b \in TodoCreateBodies}
    \cup {http_get_todo(id) : id \in HttpIds}
    \cup {http_update_todo(id, b) : id \in HttpIds, b \in TodoUpdateBodies}
    \cup {http_delete_todo(id) : id \in HttpIds}

\* The requests are handled one after the other; db.create_todo does not
\* get past the binding of its arguments.
NextHttp ==
    \/ \E c \in HttpCalls : Invoke(Caller, c, calls)
    \/ LoadAcquire(Caller)
    \/ LoadReturn(Caller)
    \/ get_all_todos(Caller)
    \/ get_todo(Caller)
    \/ update_todo(Caller)
    \/ delete_todo(Caller)
    \/ SaveAcquire(Caller)
    \/ SaveOpen(Caller)
    \/ SaveReturn(Caller)
    \/ Return(Caller)

SpecHttp == Init /\ [][NextHttp]_vars

---------------------------------------------------------------------------
(* The tool adapter, src/todo_mcp/server.py: the call of the store each    *)
(* tool makes and the value it returns.  given is what the tool was        *)
(* called with.                                                            *)

\* TodoUpdateData(**changes): as TodoUpdate, the due date being text.
TodoUpdateData(changes) ==
    [title |-> Get(changes, "title"),
     description |-> Get(changes, "description"),
     completed |-> Get(changes, "completed"),
     due_date |-> Get(changes, "due_date"),
     fields_set |-> DOMAIN changes]

\* The changes the update_todo tool is called with: each field left out,
\* null, or a value of its type.
TodoUpdateDataArgs ==
    {TodoUpdateData([k \in ks |-> IF k \in nulls THEN None ELSE NewValues[k]]) :
        ks \in SUBSET {"title", "completed", "due_date"},
        nulls \in SUBSET {"title", "completed", "due_date"}}

\* changes.dict(exclude_unset=True, exclude_none=True)
dict_exclude(m) == [k \in {x \in m.fields_set : m[x] # None} |-> m[k]]

\* The call c with what the tool was called with.
Given(c, args) ==
    [k \in DOMAIN c \cup {"given"} |-> IF k = "given" THEN args ELSE c[k]]

mcp_list_todos == Given(ListCall("mcp"), EmptyDb)

mcp_get_todo(todo_id) ==
    Given(IdCall("mcp", "get", todo_id), [todo_id |-> todo_id])

mcp_update_todo(todo_id, changes) ==
    Given(UpdateCall("mcp", todo_id, dict_exclude(changes)),
          [todo_id |-> todo_id, changes |-> changes])

mcp_delete_todo(todo_id) ==
    Given(IdCall("mcp", "delete", todo_id), [todo_id |-> todo_id])

\* The record the create_todo tool returns when db.create_todo raised e.
ErrorTodo(e) ==
    [id |-> "error", title |-> "Error creating todo", description |-> e,
     completed |-> "False", created_at |-> "", updated_at |-> "",
     due_date |-> None]

\* What the tool of call c returns when the store gave r: the value the
\* store returned, and the value of the except branch when it raised.
mcp_result(c, r) ==
    IF r.kind # "raise" THEN r
    ELSE IF c.op = "list" THEN Returned(<<>>)
    ELSE IF c.op = "create" THEN Returned(ErrorTodo(r.val))
    ELSE IF c.op = "delete" THEN Returned(FALSE)
    ELSE ReturnedNone

McpCalls ==
    {mcp_list_todos}
    \cup {Given(mcp_create_todo(b), [todo |-> b]) : b \in TodoDataArgs}
    \cup {mcp_get_todo(id) : id \in HttpIds}
    \cup {mcp_update_todo(id, ch) : id \in HttpIds, ch \in TodoUpdateDataArgs}
    \cup {mcp_delete_todo(id) : id \in HttpIds}

\* The tools are `async def` and call the store without awaiting: one
\* after the other.  db.create_todo does not get past the binding of its
\* arguments.
NextMcp ==
    \/ \E c \in McpCalls : Invoke(Caller, c, calls)
    \/ LoadAcquire(Caller)
    \/ LoadReturn(Caller)
    \/ get_all_todos(Caller)
    \/ get_todo(Caller)
    \/ update_todo(Caller)
    \/ delete_todo(Caller)
    \/ SaveAcquire(Caller)
    \/ SaveOpen(Caller)
    \/ SaveReturn(Caller)
    \/ Return(Caller)

SpecMcp == Init /\ [][NextMcp]_vars

---------------------------------------------------------------------------
(* The in-memory store, src/todo_api/db.py: the same functions on the      *)
(* module's dict todos_db, with no file.  Each operator gives [db: the     *)
(* dict after the call, ret: what the call returns].                       *)

mem_get_all_todos(db) == [db |-> db, ret |-> Returned(Values(db))]

mem_get_todo(db, todo_id) ==
    [db |-> db,
     ret |-> IF todo_id \in DOMAIN db THEN Returned(db[todo_id]) ELSE ReturnedNone]

\* create_todo(title, description="", completed=False) with the id and the
\* time the calls of uuid4() and now() yield.
mem_create_todo(db, kw, todo_id, created_at) ==
    IF ~ (DOMAIN kw \subseteq {"title", "description", "completed"} /\ "title" \in DOMAIN kw)
      THEN [db |-> db, ret |-> Raised("TypeError")]
      ELSE LET todo == [id |-> todo_id,
                        title |-> kw["title"],
                        description |-> IF "description" \in DOMAIN kw
                                          THEN kw["description"] ELSE "",
                        completed |-> IF "completed" \in DOMAIN kw
                                        THEN kw["completed"] ELSE "False",
                        created_at |-> created_at,
                        updated_at |-> created_at]
           IN  [db |-> SetItem(db, todo_id, todo), ret |-> Returned(todo)]

\* update_todo: the three `if key in data` assignments in turn, then
\* updated_at.
mem_update_todo(db, todo_id, data, now) ==
    IF todo_id \notin DOMAIN db
      THEN [db |-> db, ret |-> ReturnedNone]
      ELSE LET t0 == db[todo_id]
               t1 == IF "title" \in DOMAIN data
                       THEN SetItem(t0, "title", data["title"]) ELSE t0
               t2 == IF "description" \in DOMAIN data
                       THEN SetItem(t1, "description", data["description"]) ELSE t1
               t3 == IF "completed" \in DOMAIN data
                       THEN SetItem(t2, "completed", data["completed"]) ELSE t2
               todo == SetItem(t3, "updated_at", now)
           IN  [db |-> SetItem(db, todo_id, todo), ret |-> Returned(todo)]

mem_delete_todo(db, todo_id) ==
    IF todo_id \notin DOMAIN db
      THEN [db |-> db, ret |-> Returned(FALSE)]
      ELSE [db |-> DelItem(db, todo_id), ret |-> Returned(TRUE)]

\* The call c made on db.py, uuid4() and now() yielding what they yielded
\* to the call of json_db that returned r.
mem_call(db, c, r) ==
    IF c.op = "list" THEN mem_get_all_todos(db)
    ELSE IF c.op = "get" THEN mem_get_todo(db, c.todo_id)
    ELSE IF c.op = "create"
      THEN mem_create_todo(db, c.kw,
                           IF r.kind = "return" THEN r.val.id ELSE uuid4(issued + 1),
                           IF r.kind = "return" THEN r.val.created_at ELSE clock)
    ELSE IF c.op = "update"
      THEN mem_update_todo(db, c.todo_id, c.data,
                           IF r.kind = "return" /\ ~ r.none
                             THEN r.val.updated_at ELSE clock)
    ELSE mem_delete_todo(db, c.todo_id)

\* The call of json_db has returned: the same call is made on db.py and
\* the caller goes on to its next call.
Replay(t) ==
    /\ pc[t] = "done"
    /\ mem_todos_db' = mem_call(mem_todos_db, call[t], ret[t]).db
    /\ pc' = [pc EXCEPT ![t] = "idle"]
    /\ call' = [call EXCEPT ![t] = NoCall]
    /\ todos_db' = [todos_db EXCEPT ![t] = EmptyDb]
    /\ seen' = [seen EXCEPT ![t] = AbsentFile]
    /\ saved' = [saved EXCEPT ![t] = FALSE]
    /\ ret' = [ret EXCEPT ![t] = NoRet]
    /\ UNCHANGED <<file, sample, file_lock, issued, clock, created,
                   deleted, calls, persisted, ui, chat>>

\* The calls replayed: creates, updates and deletes of the store.
RefCalls == {c \in SeqCalls : c.via = "store" /\ c.op \in {"create", "update", "delete"}}

NextRef ==
    \/ \E c \in RefCalls : Invoke(Caller, c, calls)
    \/ LoadAcquire(Caller)
    \/ LoadReturn(Caller)
    \/ create_todo(Caller)
    \/ update_todo(Caller)
    \/ delete_todo(Caller)
    \/ SaveAcquire(Caller)
    \/ SaveOpen(Caller)
    \/ SaveReturn(Caller)
    \/ Replay(Caller)

\* Both stores start empty.
InitRef == Init /\ Store = EmptyDb

SpecRef == InitRef /\ [][NextRef]_vars

---------------------------------------------------------------------------
(* The startup event of the API, src/todo_api/main.py: it lists the store  *)
(* and, finding it empty, creates two sample records.  The event may run   *)
(* whenever the caller is idle: the server is started again.  given.before *)
(* is the store as the event found it.                                     *)

\* A startup event that does not look at what get_all_todos returned.
StartupSeedsAlways(r) == TRUE

\* `not db.get_all_todos()`
StartupSeeds(r) == r.val = <<>>

LearnFastAPI ==
    [title |-> "Learn FastAPI",
     description |-> "Learn how to build APIs with FastAPI",
     completed |-> "True"]

BuildTodoApp ==
    [title |-> "Build Todo App",
     description |-> "Create a simple todo application with FastAPI",
     completed |-> "False"]

\* startup_event is entered and calls db.get_all_todos(); the guard keeps
\* the two ids it may draw within MaxIds.
startup_event(t) ==
    /\ issued + 2 <= MaxIds
    /\ Invoke(t, Given(ListCall("startup"), [before |-> Store]), calls)

\* The call of startup_event that follows the one that has returned.
StartupFollowing(c, r) ==
    IF c.op = "list"
      THEN IF StartupSeeds(r) THEN {CreateCall("startup", LearnFastAPI)} ELSE {}
      ELSE IF c.kw = LearnFastAPI
             THEN {CreateCall("startup", BuildTodoApp)}
             ELSE {}

\* A call of startup_event returns and the event makes its next call.
startup_next(t) ==
    /\ pc[t] = "done" /\ call[t].via = "startup"
    /\ \E c \in StartupFollowing(call[t], ret[t]) :
         call' = [call EXCEPT ![t] = Given(c, call[t].given)]
    /\ pc' = [pc EXCEPT ![t] = "load"]
    /\ ret' = [ret EXCEPT ![t] = NoRet]
    /\ todos_db' = [todos_db EXCEPT ![t] = EmptyDb]
    /\ seen' = [seen EXCEPT ![t] = AbsentFile]
    /\ saved' = [saved EXCEPT ![t] = FALSE]
    /\ UNCHANGED <<file, sample, file_lock, issued, clock, created,
                   deleted, calls, persisted, mem_todos_db, ui, chat>>

\* The last call of startup_event returns and the event ends.
startup_end(t) ==
    /\ pc[t] = "done" /\ call[t].via = "startup"
    /\ StartupFollowing(call[t], ret[t]) = {}
    /\ Return(t)

\* The calls made between two starts of the server.
RestartCalls ==
    {CreateCall("store", [title |-> "a"])}
    \cup {IdCall("store", "delete", id) : id \in {uuid4(1), uuid4(2), SampleId}}

NextStartup ==
    \/ \E c \in RestartCalls : Invoke(Caller, c, calls)
    \/ startup_event(Caller)
    \/ startup_next(Caller)
    \/ startup_end(Caller)
    \/ LoadAcquire(Caller)
    \/ LoadReturn(Caller)
    \/ get_all_todos(Caller)
    \/ create_todo(Caller)
    \/ delete_todo(Caller)
    \/ SaveAcquire(Caller)
    \/ SaveOpen(Caller)
    \/ SaveReturn(Caller)
    \/ call[Caller].via # "startup" /\ Return(Caller)

SpecStartup == Init /\ [][NextStartup]_vars

---------------------------------------------------------------------------
(* toggle_todo of the web UI, src/todo_ui/app.py: a GET of the todo, then  *)
(* a PUT of the negated flag.  The UI serves its requests on threads, so   *)
(* toggles interleave; the API handles one request at a time.  given.client *)
(* is the UI handler a request of the API came from.                       *)

\* `not todo["completed"]`
Not(b) == IF b = "True" THEN "False" ELSE "True"

\* POST /todo/<todo_id>/toggle reaches the UI.
toggle_todo(p, todo_id) ==
    /\ ui[p].at = "idle" /\ ui[p].toggles < MaxToggles
    /\ ui' = [ui EXCEPT ![p] = [@ EXCEPT !.at = "get", !.todo_id = todo_id]]
    /\ UNCHANGED <<file, sample, file_lock, issued, clock, pc, call,
                   todos_db, ret, seen, saved, created, deleted, calls,
                   persisted, mem_todos_db, chat>>

\* requests.get(f"{API_BASE_URL}/todos/{todo_id}"): the API takes the
\* request.
toggle_get(p) ==
    /\ ui[p].at = "get"
    /\ Invoke(Caller, Given(http_get_todo(ui[p].todo_id), [client |-> p]), calls)

\* The API is at the end of a request of handler p made at `at`.
Answered(p, at) ==
    /\ pc[Caller] = "done" /\ call[Caller].via = "http"
    /\ call[Caller].given.client = p /\ ui[p].at = at
    /\ call[Caller].op = (IF at = "get" THEN "get" ELSE "update")

\* The GET is answered: with 200 the handler keeps the flag it read, with
\* another status it reports the error and redirects.
get_response(p) ==
    /\ Answered(p, "get")
    /\ ui' = [ui EXCEPT ![p] =
                IF http_status(call[Caller], ret[Caller]) = "200"
                  THEN [@ EXCEPT !.at = "put",
                                 !.completed = ret[Caller].val.completed]
                  ELSE [@ EXCEPT !.at = "idle", !.todo_id = None]]
    /\ UNCHANGED <<file, sample, file_lock, issued, clock, pc, call,
                   todos_db, ret, seen, saved, created, deleted, calls,
                   persisted, mem_todos_db, chat>>

\* update_data = {"completed": not todo["completed"]}
update_data(todo) == [completed |-> Not(todo.completed)]

\* requests.put(..., json=update_data): the API takes the request.
toggle_put(p) ==
    /\ ui[p].at = "put"
    /\ Invoke(Caller,
              Given(http_update_todo(ui[p].todo_id, TodoUpdate(update_data(ui[p]))),
                    [client |-> p]),
              calls)

\* The PUT is answered: with 200 the toggle has succeeded.
put_response(p) ==
    /\ Answered(p, "put")
    /\ ui' = [ui EXCEPT ![p] =
                [at |-> "idle", todo_id |-> None, completed |-> None,
                 toggles |-> IF http_status(call[Caller], ret[Caller]) = "200"
                               THEN @.toggles + 1 ELSE @.toggles]]
    /\ UNCHANGED <<file, sample, file_lock, issued, clock, pc, call,
                   todos_db, ret, seen, saved, created, deleted, calls,
                   persisted, mem_todos_db, chat>>

\* requests.RequestException: the request does not reach the API and the
\* handler redirects.
toggle_fails(p) ==
    /\ ui[p].at \in {"get", "put"}
    /\ ~ (pc[Caller] # "idle" /\ call[Caller].given.client = p)
    /\ ui' = [ui EXCEPT ![p] = [@ EXCEPT !.at = "idle", !.todo_id = None,
                                         !.completed = None]]
    /\ UNCHANGED <<file, sample, file_lock, issued, clock, pc, call,
                   todos_db, ret, seen, saved, created, deleted, calls,
                   persisted, mem_todos_db, chat>>

\* The API's response has been read by the handler that waits for it.
ResponseRead ==
    ~ \E p \in Clients : Answered(p, "get") \/ Answered(p, "put")

NextUi ==
    \/ \E p \in Clients : \E id \in HttpIds : toggle_todo(p, id)
    \/ \E p \in Clients : toggle_get(p)
    \/ \E p \in Clients : get_response(p)
    \/ \E p \in Clients : toggle_put(p)
    \/ \E p \in Clients : put_response(p)
    \/ \E p \in Clients : toggle_fails(p)
    \/ LoadAcquire(Caller)
    \/ LoadReturn(Caller)
    \/ get_todo(Caller)
    \/ update_todo(Caller)
    \/ SaveAcquire(Caller)
    \/ SaveOpen(Caller)
    \/ SaveReturn(Caller)
    \/ ResponseRead /\ Return(Caller)

\* The store holds the record of the sample file.
InitUi == Init /\ Store = SampleDb

SpecUi == InitUi /\ [][NextUi]_vars

---------------------------------------------------------------------------
(* The chat CLI, src/todo_chat/chat_cli.py: setup_mcp, then the loop of    *)
(* chat_loop and its finally block.  Each await returns or raises; inside  *)
(* the loop it may also be interrupted from the keyboard.  What a tool     *)
(* does to the store is left out: execute_tool returns or raises.          *)

\* The chat CLI does not touch the store or the web UI directly.
ChatOnly ==
    UNCHANGED <<file, sample, file_lock, issued, clock, pc, call, todos_db,
                ret, seen, saved, created, deleted, calls, persisted,
                mem_todos_db, ui>>

\* The content blocks of a response of the model.
Responses ==
    {<<"text">>, <<"tool_use">>, <<"text", "tool_use">>,
     <<"tool_use", "tool_use">>}

\* {"role": role, "content": text}
TextMessage(role) == [role |-> role, type |-> "text", id |-> 0]

\* {"role": role, "content": [block]} for a tool_use or a tool_result
\* block of the tool call id.
BlockMessage(role, type, id) == [role |-> role, type |-> type, id |-> id]

\* The id of the next tool_use block: the API gives each block a new one.
NextToolId(messages) ==
    Cardinality({i \in 1..Len(messages) : messages[i].type = "tool_use"}) + 1

\* setup_mcp: client_ctx.__aenter__(); when it raises setup_mcp returns
\* False and chat_loop returns.
client_aenter ==
    /\ chat.at = "start"
    /\ \/ chat' = [chat EXCEPT !.client = "open", !.at = "session_aenter"]
       \/ chat' = [chat EXCEPT !.at = "returned"]
    /\ ChatOnly

\* setup_mcp: session.__aenter__()
session_aenter ==
    /\ chat.at = "session_aenter"
    /\ \/ chat' = [chat EXCEPT !.session = "open", !.at = "initialize"]
       \/ chat' = [chat EXCEPT !.at = "returned"]
    /\ ChatOnly

\* setup_mcp: session.initialize(), then the global mcp_session is set.
session_initialize ==
    /\ chat.at = "initialize"
    /\ \/ chat' = [chat EXCEPT !.mcp_session = TRUE, !.at = "list_tools"]
       \/ chat' = [chat EXCEPT !.at = "returned"]
    /\ ChatOnly

\* setup_mcp: list_tools(); setup_mcp returns True and chat_loop empties
\* messages, or it raises and chat_loop returns.
list_tools ==
    /\ chat.at = "list_tools"
    /\ \/ chat' = [chat EXCEPT !.messages = <<>>, !.at = "prompt"]
       \/ chat' = [chat EXCEPT !.at = "returned"]
    /\ ChatOnly

\* typer.prompt: a message, which is appended to the history, or the exit
\* command or an interrupt, which lead to the finally block.
prompt ==
    /\ chat.at = "prompt"
    /\ \/ /\ chat.turns < MaxTurns
          /\ chat' = [chat EXCEPT !.messages = Append(@, TextMessage("user")),
                                  !.turns = @ + 1,
                                  !.at = "create"]
       \/ chat' = [chat EXCEPT !.at = "finally"]
    /\ ChatOnly

\* The first messages.create of a turn, sent with the history: a response,
\* an exception (caught in the loop) or an interrupt.
messages_create ==
    /\ chat.at = "create"
    /\ \/ \E r \in Responses :
            chat' = [chat EXCEPT !.content = r, !.has_tool_calls = FALSE,
                                 !.at = "blocks"]
       \/ chat' = [chat EXCEPT !.at = "prompt"]
       \/ chat' = [chat EXCEPT !.at = "finally"]
    /\ ChatOnly

\* One round of `for content_block in response.content`, up to the call
\* of execute_tool; after the last block, has_tool_calls decides.
content_block ==
    /\ chat.at = "blocks"
    /\ \/ /\ chat.content = <<>>
          /\ chat' = [chat EXCEPT !.at = IF chat.has_tool_calls
                                           THEN "final_create" ELSE "prompt"]
       \/ /\ chat.content # <<>> /\ Head(chat.content) = "text"
          /\ chat' = [chat EXCEPT !.messages = Append(@, TextMessage("assistant")),
                                  !.content = Tail(@)]
       \/ /\ chat.content # <<>> /\ Head(chat.content) = "tool_use"
          /\ LET tool_id == NextToolId(chat.messages)
             IN  chat' = [chat EXCEPT
                            !.has_tool_calls = TRUE,
                            !.tool_id = tool_id,
                            !.messages =
                                Append(@, BlockMessage("assistant", "tool_use", tool_id)),
                            !.content = Tail(@),
                            !.at = "execute"]
    /\ ChatOnly

\* execute_tool returns and the tool_result message is appended; or it
\* raises, which the handler of the loop catches; or it is interrupted.
execute_tool ==
    /\ chat.at = "execute"
    /\ \/ chat' = [chat EXCEPT
                     !.messages =
                         Append(@, BlockMessage("user", "tool_result", chat.tool_id)),
                     !.tool_id = 0,
                     !.at = "blocks"]
       \/ chat' = [chat EXCEPT !.content = <<>>, !.tool_id = 0, !.at = "prompt"]
       \/ chat' = [chat EXCEPT !.content = <<>>, !.tool_id = 0, !.at = "finally"]
    /\ ChatOnly

\* The second messages.create of a turn, sent with the history and no
\* tools: a text, an exception or an interrupt.
final_create ==
    /\ chat.at = "final_create"
    /\ \/ chat' = [chat EXCEPT !.messages = Append(@, TextMessage("assistant")),
                               !.at = "prompt"]
       \/ chat' = [chat EXCEPT !.at = "prompt"]
       \/ chat' = [chat EXCEPT !.at = "finally"]
    /\ ChatOnly

\* finally: when mcp_session is set, session.__aexit__(); when it raises
\* the handler prints and chat_loop returns.
session_aexit ==
    /\ chat.at = "finally"
    /\ IF chat.mcp_session
         THEN \/ chat' = [chat EXCEPT !.session = "closed",
                                      !.closed = Append(@, "session"),
                                      !.at = "client_aexit"]
              \/ chat' = [chat EXCEPT !.at = "returned"]
         ELSE chat' = [chat EXCEPT !.at = "returned"]
    /\ ChatOnly

\* finally: client.__aexit__(), and chat_loop returns.
client_aexit ==
    /\ chat.at = "client_aexit"
    /\ \/ chat' = [chat EXCEPT !.client = "closed",
                               !.closed = Append(@, "client"),
                               !.at = "returned"]
       \/ chat' = [chat EXCEPT !.at = "returned"]
    /\ ChatOnly

NextChat ==
    \/ client_aenter
    \/ session_aenter
    \/ session_initialize
    \/ list_tools
    \/ prompt
    \/ messages_create
    \/ content_block
    \/ execute_tool
    \/ final_create
    \/ session_aexit
    \/ client_aexit

SpecChat == Init /\ [][NextChat]_vars

---------------------------------------------------------------------------
(* Properties of the store. *)

\* The call of thread t changes the store.
Mutating(t) == call[t].op \in {"create", "update", "delete"}

\* Whether the call of thread t, back from _load_todos, goes on to save.
WillSave(t) ==
    \/ call[t].op = "create"
    \/ call[t].op \in {"update", "delete"} /\ call[t].todo_id \in DOMAIN todos_db[t]

\* Thread t is between the end of its load and the start of its own save.
BetweenLoadAndSave(t) ==
    \/ pc[t] = "loaded" /\ Mutating(t) /\ WillSave(t)
    \/ pc[t] = "save"

\* Thread t is inside _load_todos or _save_todos, past the lock.
InFileAccess(t) == pc[t] \in {"loading", "saving", "dumping"}

\* C1: in create, update and delete the lock is held from the load until
\* the save has completed, so between one operation's load and its own save
\* no other operation loads or saves the backing file.
C1_NoAccessInsideCycle ==
    \A t \in Threads :
        BetweenLoadAndSave(t) => \A u \in Threads \ {t} : ~ InFileAccess(u)

\* The ids of creates that have returned their record.
InFlightCreated ==
    {ret[t].val.id : t \in {u \in Threads :
        call[u].op = "create" /\ pc[u] \in {"save", "saving", "dumping"}}}

AcknowledgedCreated ==
    {created[i] : i \in 1..Len(created)} \ InFlightCreated

\* C2: store operations are atomic with respect to each other; in
\* particular no acknowledged create is lost: every record a create has
\* returned, and no delete has removed, is in the backing file.
C2_NoAcknowledgedCreateLost ==
    file.st = "ok" =>
        \A id \in AcknowledgedCreated \ deleted : id \in DOMAIN json_load(file.data)

\* C3: a load of the backing file never overlaps a save of it, so no load
\* reads a partially written file.
C3_NoTornRead ==
    \A t \in Threads :
        pc[t] = "loading" =>
            /\ file.st # "partial"
            /\ \A u \in Threads \ {t} : pc[u] \notin {"saving", "dumping"}

\* A reader waits for the lock while a save has the file half written.
C3_Witness ==
    \E t \in Threads, u \in Threads :
        /\ pc[t] = "dumping" /\ file.st = "partial"
        /\ pc[u] = "load" /\ call[u].op \in {"get", "list"}

\* C4: create called with a due_date argument, as POST /todos and the tool
\* adapter call it, returns a persisted record with that due_date, and the
\* HTTP handler answers 201.
C4_CreateWithDueDate ==
    \A t \in Threads :
        (pc[t] = "done" /\ call[t].op = "create" /\ "due_date" \in DOMAIN call[t].kw) =>
            /\ ret[t].kind = "return"
            /\ Get(ret[t].val, "due_date") = call[t].kw["due_date"]
            /\ ret[t].val.id \in DOMAIN Store
            /\ call[t].via = "http" => http_create_status(ret[t]) = "201"

\* C5: update(id, {due_date: d}) on an existing record returns and persists
\* a record with due_date = d.
C5_UpdateAppliesDueDate ==
    \A t \in Threads :
        (/\ pc[t] = "done" /\ call[t].op = "update"
         /\ call[t].todo_id \in DOMAIN Snap(t)
         /\ "due_date" \in DOMAIN call[t].data) =>
            /\ ret[t].kind = "return" /\ ~ ret[t].none
            /\ Get(ret[t].val, "due_date") = call[t].data["due_date"]
            /\ call[t].todo_id \in DOMAIN Store
            /\ Get(Store[call[t].todo_id], "due_date") = call[t].data["due_date"]

\* The keys C6 is about.
C6Keys == {"title", "description", "completed"}

\* An update of an existing record with a subset of C6Keys has returned.
C6_Case(t) ==
    /\ pc[t] = "done" /\ call[t].op = "update"
    /\ call[t].todo_id \in DOMAIN Snap(t)
    /\ DOMAIN call[t].data \subseteq C6Keys

\* C6: an update of an existing record with any subset of title,
\* description and completed sets exactly the supplied fields and
\* updated_at; every other field of the record and every other record is
\* as before the update.
C6_UpdateFrame ==
    \A t \in Threads :
        C6_Case(t) =>
            LET id == call[t].todo_id
                data == call[t].data
                old == Snap(t)[id]
            IN  /\ ret[t].kind = "return" /\ ~ ret[t].none
                /\ DOMAIN Store = DOMAIN Snap(t)
                /\ ret[t].val = Store[id]
                /\ \A k \in DOMAIN data : Store[id][k] = data[k]
                /\ Store[id].updated_at = clock
                /\ DOMAIN Store[id] = DOMAIN old
                /\ \A k \in DOMAIN old \ (DOMAIN data \cup {"updated_at"}) :
                       Store[id][k] = old[k]
                /\ \A j \in DOMAIN Store \ {id} : Store[j] = Snap(t)[j]

\* An update of the title alone, of one record among several, at a later
\* time than the record's last change.
C6_Witness ==
    \E t \in Threads :
        /\ C6_Case(t)
        /\ DOMAIN call[t].data = {"title"}
        /\ Cardinality(DOMAIN Store) >= 2
        /\ Snap(t)[call[t].todo_id].title # call[t].data["title"]
        /\ Snap(t)[call[t].todo_id].description = "x"
        /\ Store[call[t].todo_id].updated_at > Snap(t)[call[t].todo_id].updated_at

\* An update of an id that is not in the store has returned.
C7_Case(t) ==
    /\ pc[t] = "done" /\ call[t].op = "update"
    /\ call[t].todo_id \notin DOMAIN Snap(t)

\* C7: update of an id that is not in the store returns None, raises
\* nothing, saves nothing and leaves a well-formed backing file as it was.
C7_UpdateUnknown ==
    \A t \in Threads :
        C7_Case(t) =>
            /\ ret[t] = ReturnedNone
            /\ ~ saved[t]
            /\ seen[t].st = "ok" => file = seen[t]

\* Such an update on a file that holds records.
C7_Witness ==
    \E t \in Threads :
        /\ C7_Case(t)
        /\ seen[t].st = "ok"
        /\ Cardinality(DOMAIN Snap(t)) >= 1
        /\ DOMAIN call[t].data # {}

\* What C8 says of a delete that has returned, unchanged being what it
\* says of the backing file when the delete returns false.
C8_Delete(t, unchanged) ==
    LET id == call[t].todo_id
    IN  /\ ret[t].kind = "return"
        /\ ret[t].val = (id \in DOMAIN Snap(t))
        /\ ret[t].val =>
              /\ id \notin DOMAIN Store
              /\ \A i \in 1..Len(Values(Store)) : Values(Store)[i].id # id
              /\ Store = DelItem(Snap(t), id)
              /\ saved[t]
        /\ ~ ret[t].val => unchanged

C8_Case(t) == pc[t] = "done" /\ call[t].op = "delete"

C8_FileUnchanged(t) == file = seen[t]

C8_OkFileUnchanged(t) == ~ saved[t] /\ (seen[t].st = "ok" => file = seen[t])

\* C8 as stated: delete returns true exactly when the id is in the store;
\* after true the record is gone from get and list_all and every other
\* record is unchanged; after false the backing file is unchanged.
C8_DeleteAsStated ==
    \A t \in Threads : C8_Case(t) => C8_Delete(t, C8_FileUnchanged(t))

\* C8 amended: as stated, but after false it is a well-formed backing file
\* that is unchanged, and nothing is saved.
C8_DeleteAmended ==
    \A t \in Threads : C8_Case(t) => C8_Delete(t, C8_OkFileUnchanged(t))

\* A second delete of an id returns false, other records being there.
C8_Witness ==
    \E t \in Threads :
        /\ C8_Case(t)
        /\ call[t].todo_id \in deleted
        /\ ret[t] = Returned(FALSE)
        /\ seen[t].st = "ok" /\ Cardinality(DOMAIN Store) >= 1

\* C9: the records of the store have pairwise distinct, non-empty ids, each
\* is stored under its own id, and create never gives an id it gave before,
\* the ids of deleted records included.
C9_UniqueIds ==
    LET store == Store
    IN  /\ \A k \in DOMAIN store : k # "" /\ store[k].id = k
        /\ \A j, k \in DOMAIN store : j # k => store[j].id # store[k].id
        /\ \A i, j \in 1..Len(created) : i # j => created[i] # created[j]

\* A record has been created after the one created before it was deleted.
C9_Witness ==
    /\ Len(created) = 2
    /\ created[1] \in deleted
    /\ created[1] \notin DOMAIN Store
    /\ created[2] \in DOMAIN Store

C10_Case(t) == pc[t] = "done" /\ call[t].op = "create" /\ ret[t].kind = "return"

\* C10: create returns a record with the supplied title, description and
\* completed flag and created_at = updated_at; the record is persisted, so
\* that a following get(id) returns it, and the records that existed before
\* are unchanged.
C10_CreatePersists ==
    \A t \in Threads :
        C10_Case(t) =>
            LET r == ret[t].val
            IN  /\ \A k \in DOMAIN call[t].kw \cap CreateParams : r[k] = call[t].kw[k]
                /\ r.created_at = r.updated_at
                /\ saved[t]
                /\ DOMAIN Store = DOMAIN Snap(t) \cup {r.id}
                /\ r.id \notin DOMAIN Snap(t)
                /\ Get(Store, r.id) = r
                /\ \A k \in DOMAIN Snap(t) : Store[k] = Snap(t)[k]

\* A create with no default value among its arguments, in a store that
\* held a record.
C10_Witness ==
    \E t \in Threads :
        /\ C10_Case(t)
        /\ call[t].kw["title"] = "b"
        /\ "completed" \in DOMAIN call[t].kw /\ call[t].kw["completed"] = "True"
        /\ "description" \in DOMAIN call[t].kw /\ call[t].kw["description"] = "x"
        /\ Cardinality(DOMAIN Snap(t)) >= 1

\* C11: in every reachable state every record of the store has
\* created_at <= updated_at, whatever creates and updates are made and
\* however they interleave, the clock never going back.
C11_CreatedBeforeUpdated ==
    LET store == Store
    IN  \A id \in DOMAIN store : store[id].created_at <= store[id].updated_at

\* A record created after the clock has advanced is updated and persisted.
C11_Witness ==
    \E id \in DOMAIN Store :
        /\ Store[id].created_at >= 1
        /\ Store[id].completed = "True"
        /\ \E t \in Threads : pc[t] = "done" /\ call[t].op = "update" /\ saved[t]

\* The steps in which an update writes the file.
C12_UpdateSaves(t) ==
    pc[t] = "dumping" /\ pc'[t] = "done" /\ call[t].op = "update"

\* C12: the persisted updated_at of a record never decreases: when an
\* update completes its write, each record has an updated_at no less than
\* in the last well-formed file before it, also when several threads
\* update concurrently.
C12_UpdatedAtMonotone ==
    [][\A t \in Threads :
          C12_UpdateSaves(t) =>
              \A id \in DOMAIN persisted \cap DOMAIN persisted' :
                  persisted'[id].updated_at >= persisted[id].updated_at]_vars

\* C13: round trip against the in-memory store: after any sequence of
\* create, update and delete calls made one after the other on an empty
\* store, the records a load of the backing file yields are those of
\* db.py after the same calls with the same ids and times.
C13_RoundTrip ==
    pc[Caller] = "idle" => Store = mem_todos_db

\* Two records were created, one was updated at a later time and the other
\* deleted.
C13_Witness ==
    /\ pc[Caller] = "idle"
    /\ Len(created) = 2
    /\ created[2] \in deleted
    /\ created[1] \in DOMAIN mem_todos_db
    /\ mem_todos_db[created[1]].title = "b"
    /\ mem_todos_db[created[1]].updated_at > mem_todos_db[created[1]].created_at

\* A call has returned whose load found DB_FILE unparsable.
C14_Case(t) == pc[t] = "done" /\ seen[t].st = "malformed"

\* C14: a malformed backing file gives the caller no error: an operation
\* that finds the file unparsable does what it does on an empty store (get
\* and update return None, list_all returns nothing, delete returns false,
\* create leaves a store of the new record alone), and the file is
\* well-formed afterwards.
C14_MalformedAsEmpty ==
    \A t \in Threads :
        C14_Case(t) =>
            /\ ret[t].kind = "return"
            /\ file.st = "ok"
            /\ call[t].op \in {"get", "update"} => ret[t].none
            /\ call[t].op = "list" => ret[t].val = <<>>
            /\ call[t].op = "delete" => ret[t].val = FALSE
            /\ call[t].op = "create" =>
                   Store = SetItem(EmptyDb, ret[t].val.id, ret[t].val)
            /\ call[t].op # "create" => Store = EmptyDb /\ ~ saved[t]

\* A create on an unparsable file, the sample file being there.
C14_Witness ==
    \E t \in Threads :
        /\ C14_Case(t)
        /\ call[t].op = "create"
        /\ sample.st = "ok"
        /\ Cardinality(DOMAIN Store) = 1

\* The records a file holds: none when it does not parse.
FileRecords(f) == IF f.st = "ok" THEN json_load(f.data) ELSE EmptyDb

\* What C15 says the first load yields when DB_FILE is absent.
C15_Initial == IF sample.st # "absent" THEN FileRecords(sample) ELSE EmptyDb

\* C15: when the first operation finds the primary file absent, the store
\* starts with exactly the records of the seed file if there is one, and
\* empty if there is none; the primary file is created with these records.
C15_Initialization ==
    \A t \in Threads :
        /\ (pc[t] = "loaded" /\ seen[t].st = "absent") =>
               /\ todos_db[t] = C15_Initial
               /\ file = OkFile(C15_Initial)
        /\ (pc[t] = "done" /\ seen[t].st = "absent" /\ call[t].op = "list") =>
               /\ ret[t].val = Values(C15_Initial)
               /\ file = OkFile(C15_Initial)

\* The first call lists the records copied from the seed file.
C15_Witness ==
    \E t \in Threads :
        /\ pc[t] = "done" /\ call[t].op = "list"
        /\ seen[t].st = "absent" /\ sample.st = "ok"
        /\ Len(ret[t].val) = 1
        /\ file.st = "ok" /\ SampleId \in DOMAIN json_load(file.data)

\* C17: the id and created_at of a record never change while the record is
\* in the store, whatever keys the data of an update has, id and
\* created_at among them.
C17_IdAndCreatedAtFixed ==
    [][\A id \in DOMAIN persisted \cap DOMAIN persisted' :
          /\ persisted'[id].id = persisted[id].id
          /\ persisted'[id].id = id
          /\ persisted'[id].created_at = persisted[id].created_at]_vars

\* An update whose data has the keys id and created_at has been saved.
C17_Witness ==
    \E t \in Threads :
        /\ pc[t] = "done" /\ call[t].op = "update" /\ saved[t]
        /\ {"id", "created_at"} \subseteq DOMAIN call[t].data
        /\ call[t].data["id"] # call[t].todo_id
        /\ call[t].data["created_at"] # Store[call[t].todo_id].created_at
        /\ Store[call[t].todo_id].title = call[t].data["title"]

\* A get or a list_all has returned.
C20_Case(t) == pc[t] = "done" /\ call[t].op \in {"get", "list"}

\* C20: get(id) returns the stored record when id is in the store and
\* None, raising nothing, when it is not; list_all returns every record of
\* the store exactly once; neither changes a well-formed backing file.
C20_ReadOnly ==
    \A t \in Threads :
        C20_Case(t) =>
            /\ ret[t].kind = "return"
            /\ call[t].op = "get" =>
                   IF call[t].todo_id \in DOMAIN Snap(t)
                     THEN ~ ret[t].none /\ ret[t].val = Snap(t)[call[t].todo_id]
                     ELSE ret[t].none
            /\ call[t].op = "list" =>
                   /\ Len(ret[t].val) = Cardinality(DOMAIN Snap(t))
                   /\ \A id \in DOMAIN Snap(t) :
                          Cardinality({i \in 1..Len(ret[t].val) :
                                          ret[t].val[i] = Snap(t)[id]}) = 1
            /\ ~ saved[t]
            /\ seen[t].st = "ok" => file = seen[t]

\* A list_all of a well-formed file that holds several records.
C20_Witness ==
    \E t \in Threads :
        /\ C20_Case(t) /\ call[t].op = "list"
        /\ seen[t].st = "ok"
        /\ Cardinality(DOMAIN Snap(t)) >= 2

\* C16: after any requests the HTTP layer accepts, PUT with title or
\* completed set to null among them, every record of the store has a
\* non-empty text title and a boolean completed flag.
C16_TitleAndCompleted ==
    \A id \in DOMAIN Store :
        /\ Store[id].title \notin {None, ""}
        /\ Store[id].completed \in {"True", "False"}

\* A GET, PUT or DELETE of /todos/{id} has its answer from the store.
C18_Case(t) ==
    /\ pc[t] = "done" /\ call[t].via = "http"
    /\ call[t].op \in {"get", "update", "delete"}

\* The store reports the id of the request absent.
C18_Absent(t) ==
    /\ ret[t].kind = "return"
    /\ IF call[t].op = "delete" THEN ret[t].val = FALSE ELSE ret[t].none

\* C18: GET, PUT and DELETE on /todos/{id} answer 404 exactly when the
\* store reports the id absent; a request answered 404 leaves the store
\* unchanged; a DELETE whose store call returns true answers 204.
C18_AbsentIs404 ==
    \A t \in Threads :
        C18_Case(t) =>
            /\ (http_status(call[t], ret[t]) = "404") <=> C18_Absent(t)
            /\ http_status(call[t], ret[t]) = "404" =>
                   /\ Store = Snap(t)
                   /\ ~ saved[t]
                   /\ seen[t].st = "ok" => file = seen[t]
            /\ (call[t].op = "delete" /\ ~ C18_Absent(t)) =>
                   /\ ret[t].val = TRUE
                   /\ http_status(call[t], ret[t]) = "204"

\* A PUT of an unknown id is answered 404, the store holding a record.
C18_Witness ==
    \E t \in Threads :
        /\ C18_Case(t) /\ call[t].op = "update"
        /\ DOMAIN call[t].data # {}
        /\ http_status(call[t], ret[t]) = "404"
        /\ seen[t].st = "ok" /\ Cardinality(DOMAIN Store) >= 1

\* The fields the caller of update_todo supplied, null or not, with their
\* values.
C19_Supplied(changes) == [k \in changes.fields_set |-> changes[k]]

\* The inputs of the store call are the inputs the tool was given.
C19_SameInputs(c) ==
    /\ c.op = "create" =>
           \A k \in DOMAIN c.kw : c.kw[k] = c.given.todo[k]
    /\ c.op \in {"get", "update", "delete"} => c.todo_id = c.given.todo_id
    /\ c.op = "update" => c.data = C19_Supplied(c.given.changes)

\* C19: each tool of the adapter calls its store operation with exactly
\* the inputs it was given, update forwarding every field supplied, one
\* set to null too, and returns exactly what the store operation returned.
C19_AdapterForwards ==
    \A t \in Threads :
        (call[t].via = "mcp" /\ pc[t] = "done") =>
            /\ C19_SameInputs(call[t])
            /\ ret[t].kind = "return"
            /\ mcp_result(call[t], ret[t]) = ret[t]

\* Thread t asks for the lock.
C21_Requests(t) == pc[t] \in {"load", "save"}

\* A call is under way and no thread can take a step.
C21_Deadlock ==
    /\ \E t \in Threads : pc[t] # "idle"
    /\ \A t \in Threads : ~ ENABLED Step(t)

\* C21: under fair scheduling every store operation that is invoked
\* returns in the end: a thread waiting for the lock gets it, no thread
\* asks for the lock while it holds it, and no reachable state is a
\* deadlock.
C21_EveryCallReturns ==
    /\ [](\A t \in Threads : C21_Requests(t) => t \notin file_lock)
    /\ [](~ C21_Deadlock)
    /\ \A t \in Threads : C21_Requests(t) ~> t \in file_lock
    /\ \A t \in Threads : (pc[t] # "idle") ~> (pc[t] = "done")

\* A thread waits for the lock while another is writing the file.
C21_Witness ==
    \E t \in Threads : \E u \in Threads \ {t} :
        /\ pc[t] = "save" /\ Mutating(t)
        /\ pc[u] = "dumping" /\ file_lock = {u}

\* The ids whose delete_todo has returned True.
C22_Deleted ==
    deleted \ {call[t].todo_id : t \in {u \in Threads :
                  call[u].op = "delete" /\ pc[u] \in {"save", "saving", "dumping"}}}

\* C22: a deleted record never reappears: once delete(id) has returned
\* true, a get or list_all that starts later finds no record with that id
\* in the file, whatever other threads do, an update of the id that loaded
\* before the delete saved included.
C22_DeletedStaysDeleted ==
    \A id \in C22_Deleted : file_lock = {} => id \notin DOMAIN Store

\* The create_todo tool has its answer.
C23_Case(t) == pc[t] = "done" /\ call[t].via = "mcp" /\ call[t].op = "create"

\* C23: the create_todo tool, given a valid title, adds exactly one record
\* to the store and returns it with its generated id; the record with id
\* "error" is returned only when the store operation fails, the store
\* staying as it was.
C23_ToolCreates ==
    \A t \in Threads :
        C23_Case(t) =>
            LET r == mcp_result(call[t], ret[t]).val
            IN  /\ ret[t].kind = "return"
                /\ r.id \in DOMAIN Store
                /\ Store[r.id] = r
                /\ r.id = created[Len(created)]
                /\ r.title = call[t].given.todo.title
                /\ r.id = "error" => ret[t].kind = "raise" /\ ~ saved[t]

\* C24: once the primary file exists the seed file is not consulted again:
\* whatever operations came before, the deletion of every record among
\* them, a load returns what the primary file holds, an empty store stays
\* empty, and the seed is not copied again.
C24_SeedOnlyOnce ==
    \A t \in Threads :
        (pc[t] = "loaded" /\ seen[t].st # "absent") =>
            /\ todos_db[t] = FileRecords(seen[t])
            /\ file.st = "ok"
            /\ json_load(file.data) = FileRecords(seen[t])

\* A load of a primary file emptied by the deletion of the seeded record,
\* the seed file still being there.
C24_Witness ==
    \E t \in Threads :
        /\ pc[t] = "loaded" /\ seen[t].st = "ok"
        /\ todos_db[t] = EmptyDb
        /\ sample.st = "ok" /\ SampleId \in deleted

\* A call that went through _load_todos found no primary file and a seed
\* file that does not parse.
C25_Case(t) ==
    /\ pc[t] \in {"loaded", "done"} /\ ~ BindFails(call[t])
    /\ seen[t].st = "absent" /\ sample.st = "malformed"

\* C25: with the primary file absent and a seed file that does not parse,
\* the load returns an empty store, creates a well-formed empty primary
\* file and gives the caller no exception.
C25_BadSeedAsEmpty ==
    \A t \in Threads :
        C25_Case(t) =>
            /\ Snap(t) = EmptyDb
            /\ pc[t] = "loaded" => todos_db[t] = EmptyDb /\ file = OkFile(EmptyDb)
            /\ pc[t] = "done" =>
                   /\ ret[t].kind = "return"
                   /\ file.st = "ok"
                   /\ ~ saved[t] => file = OkFile(EmptyDb)

\* A list_all has returned nothing in that case.
C25_Witness ==
    \E t \in Threads :
        /\ C25_Case(t) /\ pc[t] = "done" /\ call[t].op = "list"
        /\ ret[t].val = <<>>

\* Thread t is inside the `with file_lock:` block of a load or a save.
C26_Inside(t) == pc[t] \in {"loading", "saving", "dumping"}

\* C26: the lock is released on every exit path of a load and of a save,
\* the paths where reading or writing raises included: only a thread that
\* is inside a load or a save holds the lock, so the lock is free whenever
\* no thread is inside one, and a failed operation blocks no later one.
C26_LockFreedOnRaise ==
    /\ \A t \in file_lock : C26_Inside(t)
    /\ (\A t \in Threads : ~ C26_Inside(t)) => file_lock = {}

\* One call has ended with an OSError and another thread has entered a
\* block since.
C26_Witness ==
    \E t \in Threads : \E u \in Threads \ {t} :
        /\ pc[t] = "done" /\ ret[t] = Raised("OSError")
        /\ C26_Inside(u) /\ file_lock = {u}

\* A call of the startup event has returned.
C27_Case(t) == pc[t] = "done" /\ call[t].via = "startup"

\* C27: the startup event run on a store with no records creates exactly
\* two sample records, one completed and one not; run on a store that
\* holds a record it leaves the store as it is.
C27_StartupSeeding ==
    \A t \in Threads :
        C27_Case(t) =>
            LET before == call[t].given.before
                store == Store
                last == StartupFollowing(call[t], ret[t]) = {}
            IN  /\ ret[t].kind = "return"
                /\ before # EmptyDb =>
                       /\ call[t].op = "list" /\ last
                       /\ store = before
                /\ (before = EmptyDb /\ last) =>
                       /\ call[t].op = "create"
                       /\ Cardinality(DOMAIN store) = 2
                       /\ {store[id].title : id \in DOMAIN store}
                              = {"Learn FastAPI", "Build Todo App"}
                       /\ {store[id].completed : id \in DOMAIN store}
                              = {"True", "False"}

\* The second record has been created on a store the event found empty.
C27_Witness ==
    \E t \in Threads :
        /\ C27_Case(t) /\ call[t].op = "create" /\ call[t].kw = BuildTodoApp
        /\ call[t].given.before = EmptyDb
        /\ Cardinality(DOMAIN Store) = 2

RECURSIVE C28_TogglesUpTo(_)
\* The successful toggles of handlers 1..n.
C28_TogglesUpTo(n) == IF n = 0 THEN 0 ELSE ui[n].toggles + C28_TogglesUpTo(n - 1)

\* No toggle is under way.
C28_Quiet == pc[Caller] = "idle" /\ \A p \in Clients : ui[p].at = "idle"

\* C28: each successful toggle flips the stored completed flag and changes
\* no other content field: after n successful toggles of the todo, however
\* the toggle requests interleave, completed is the original value for an
\* even n and its negation for an odd n.
C28_ToggleParity ==
    C28_Quiet =>
        LET store == Store
            n == C28_TogglesUpTo(NumClients)
        IN  /\ SampleId \in DOMAIN store
            /\ store[SampleId].title = SampleTodo.title
            /\ store[SampleId].description = SampleTodo.description
            /\ store[SampleId].completed =
                   IF n % 2 = 0 THEN SampleTodo.completed
                                ELSE Not(SampleTodo.completed)

\* The history is about to be sent to the model.
C29_Sending == chat.at \in {"create", "final_create"}

\* C29: in the history of the chat CLI every assistant message with a
\* tool_use block is followed at once by a user message with the
\* tool_result block of the same tool_use_id, at every point where the
\* history is sent to the model, the turns after a tool execution raised
\* included.
C29_ToolUsePaired ==
    C29_Sending =>
        \A i \in 1..Len(chat.messages) :
            chat.messages[i].type = "tool_use" =>
                /\ i < Len(chat.messages)
                /\ chat.messages[i + 1] =
                       BlockMessage("user", "tool_result", chat.messages[i].id)

\* C30: when chat_loop returns, every connection it opened is closed, the
\* session before the client: after the exit command, an interrupt, an
\* exception in the loop, and a setup that fails once the client or the
\* session was entered.
C30_ClosedOnReturn ==
    chat.at = "returned" =>
        /\ chat.client # "open"
        /\ chat.session # "open"
        /\ chat.closed \in {<<>>, <<"session", "client">>}

=============================================================================
